---- MODULE Spec2Model ----
(***************************************************************************)
(* Model-order selection for per-word hidden Markov models                 *)
(* (my_model_selectors.py): ModelSelector with its four strategies         *)
(* SelectorConstant, SelectorBIC, SelectorDIC and SelectorCV.              *)
(*                                                                         *)
(* The trainer (hmmlearn's GaussianHMM) and the fold splitter (sklearn's   *)
(* KFold) are external: every fit and every score is a nondeterministic    *)
(* answer (a ValueError, or a log-likelihood drawn from LogLs).  A fit     *)
(* made with random_state is answered as a function of (data, n, seed),    *)
(* remembered in `seeded`; a fit made without random_state draws from the  *)
(* process-wide generator and is answered afresh each time.                *)
(*                                                                         *)
(* Arithmetic.  Log-likelihoods are integers.  Quotients (the fold average *)
(* of SelectorCV, the other-word average of SelectorDIC) are kept exactly  *)
(* in units of 1/Unit; the BIC score is kept in thousandths, with the      *)
(* natural logarithm tabulated in thousandths (LnMilli).                   *)
(***************************************************************************)
EXTENDS Integers, Sequences, FiniteSets, TLC

\* ---------------------------------------------------------------- bounds
MaxN == 2            \* largest hidden-state count a range may contain
MaxWords == 2        \* largest number of words in the dictionaries
MaxRows == 5         \* largest number of feature rows of this word (len(self.X))
MaxFeatures == 2     \* largest feature dimension (model.n_features)
MinLogL == 1         \* log-likelihoods range over -MinLogL..MaxLogL
MaxLogL == 0

\* ------------------------------------------------------- program constants
n_splits == 4                 \* KFold(n_splits=4)
random_state == 14            \* default random_state of ModelSelector.__init__
default_n_constant == 3       \* default n_constant of ModelSelector.__init__
PosInf == 1000000             \* float('inf')
NegInf == -1000000            \* float('-inf')
None == 0                     \* the model returned by a failed base_model
NoSeed == -1                  \* GaussianHMM(...) built without random_state

Strategies == {"SelectorConstant", "SelectorBIC", "SelectorDIC", "SelectorCV"}
LogLs == (0 - MinLogL)..MaxLogL

\* 1/Unit is the unit of the averaged scores: every divisor that can occur
\* (1..n_splits folds, 1..MaxWords-1 other words) divides it.
Unit == 3 * n_splits * 5

\* round(1000 * ln N) for N = 1..8; np.log(len(self.X))
LnMilli == <<0, 693, 1099, 1386, 1609, 1792, 1946, 2079>>

VARIABLES
    strategy,             \* the concrete ModelSelector subclass
    hwords,               \* number of words in all_word_Xlengths, iterated 1..hwords
    this_word,            \* index of this word in the dictionaries
    lenX,                 \* len(self.X): feature rows of this word (0: no sequences)
    n_features,           \* model.n_features
    n_constant,
    min_n_components,
    max_n_components,
    pc,                   \* "select", "sweep", "return", "done", "error"
    i,                    \* the loop variable of the sweep
    best_score,
    best_num_components,
    model,                \* what select() returned: None or the index in fit_log of the fit
    error,                \* the exception select() ended with, "" when none
    fit_log,              \* every trainer fit attempted, in order
    trace,                \* per swept candidate, what the trainer answered
    fitted,               \* hidden-state counts for which some fit succeeded
    seeded,               \* answers of the fits made with random_state: {<<n, ok>>}
    call,                 \* 1 for the first select(), 2 for the repeated one
    first_best            \* best_num_components of the first select()

vars == <<strategy, hwords, this_word, lenX, n_features, n_constant,
          min_n_components, max_n_components, pc, i, best_score,
          best_num_components, model, error, fit_log, trace, fitted, seeded,
          call, first_best>>

context == <<strategy, hwords, this_word, lenX, n_features, n_constant,
             min_n_components, max_n_components>>

\* ------------------------------------------------------------ trainer answers
Fail == [ok |-> FALSE, v |-> 0]
ScoreRes == {Fail} \cup {[ok |-> TRUE, v |-> l] : l \in LogLs}

\* one candidate (or one fold): the fit raised, the score raised, or a log-likelihood
FitFail == [fit |-> FALSE, ok |-> FALSE, v |-> 0]
ScoreFail == [fit |-> TRUE, ok |-> FALSE, v |-> 0]
Scored(l) == [fit |-> TRUE, ok |-> TRUE, v |-> l]

\* No fit succeeds on an empty observation matrix or with fewer than one state.
CanFit(n) == n >= 1 /\ lenX >= 1

Outcomes(n) ==
    IF CanFit(n) THEN {FitFail, ScoreFail} \cup {Scored(l) : l \in LogLs}
    ELSE {FitFail}

\* One entry of trace: whether the candidate got a criterion value from the
\* trainer's answers, that value (BIC: the log-likelihood; DIC, CV: the
\* criterion in 1/Unit), and how many other words' scorings raised (DIC).
Answer(ok, v, excl) == [ok |-> ok, v |-> v, excl |-> excl]

FitRecord(n, data, fold, lengths, seed) ==
    [n |-> n, data |-> data, fold |-> fold, lengths |-> lengths, seed |-> seed]

RECURSIVE SumSeq(_)
SumSeq(s) == IF s = <<>> THEN 0 ELSE Head(s) + SumSeq(Tail(s))

RECURSIVE SumOver(_, _)
SumOver(S, f) ==
    IF S = {} THEN 0
    ELSE LET w == CHOOSE x \in S : TRUE IN f[w].v + SumOver(S \ {w}, f)

\* ------------------------------------------------------------------- Init
Fresh ==
    /\ pc = "select"
    /\ i = 0
    /\ best_score = 0
    /\ best_num_components = 0
    /\ model = None
    /\ error = ""
    /\ fit_log = <<>>
    /\ trace = <<>>
    /\ fitted = {}
    /\ seeded = {}
    /\ call = 1
    /\ first_best = 0

\* ModelSelector.__init__ stores its arguments unchecked.  Arguments a strategy
\* never reads are left at one value; SelectorConstant and SelectorDIC read of
\* len(self.X) only whether it is zero.
Init ==
    /\ strategy \in Strategies
    /\ min_n_components \in 1..MaxN
    /\ max_n_components \in 1..(MaxN + 1)
    /\ lenX \in IF strategy \in {"SelectorBIC", "SelectorCV"} THEN 0..MaxRows ELSE {0, MaxRows}
    /\ hwords \in IF strategy = "SelectorDIC" THEN 1..MaxWords ELSE {1}
    /\ this_word \in 1..hwords
    /\ n_features \in IF strategy = "SelectorBIC" THEN 1..MaxFeatures ELSE {1}
    /\ n_constant \in IF strategy = "SelectorConstant" THEN 1..MaxN ELSE {default_n_constant}
    /\ Fresh

\* -------------------------------------------------------- SelectorConstant
ConstantSelect_default ==
    /\ pc = "select"
    /\ strategy = "SelectorConstant"
    /\ best_num_components' = default_n_constant
    /\ pc' = "return"
    /\ UNCHANGED <<context, i, best_score, model, error, fit_log, trace, fitted,
                   seeded, call, first_best>>

ConstantSelect ==
    /\ pc = "select"
    /\ strategy = "SelectorConstant"
    /\ best_num_components' = n_constant
    /\ pc' = "return"
    /\ UNCHANGED <<context, i, best_score, model, error, fit_log, trace, fitted,
                   seeded, call, first_best>>

\* -------------------------------------------------------------- SelectorBIC
BICStart_first ==
    /\ pc = "select"
    /\ strategy = "SelectorBIC"
    /\ best_score' = PosInf
    /\ best_num_components' = min_n_components
    /\ i' = min_n_components
    /\ pc' = "sweep"
    /\ UNCHANGED <<context, model, error, fit_log, trace, fitted, seeded, call,
                   first_best>>

BICStart ==
    /\ pc = "select"
    /\ strategy = "SelectorBIC"
    /\ best_score' = PosInf
    /\ best_num_components' = 0
    /\ i' = min_n_components
    /\ pc' = "sweep"
    /\ UNCHANGED <<context, model, error, fit_log, trace, fitted, seeded, call,
                   first_best>>

\* p = i ** 2 + 2 * (model.n_features) * i - 1
FreeParams(n, f) == n * n + 2 * f * n - 1

\* score = -2 * model.score(self.X) + p * np.log(len(self.X)), in thousandths
BICScore(n, logL) == (0 - 2) * logL * 1000 + FreeParams(n, n_features) * LnMilli[lenX]

BICBetter_ties(score, best) == score <= best

\* if score < best_score
BICBetter(score, best) == score < best

BICCandidate ==
    /\ pc = "sweep"
    /\ strategy = "SelectorBIC"
    /\ i < max_n_components
    /\ \E r \in Outcomes(i) :
         LET score == BICScore(i, r.v)
             wins == r.ok /\ BICBetter(score, best_score)
         IN /\ fit_log' = Append(fit_log, FitRecord(i, "X", 0, FALSE, NoSeed))
            /\ trace' = Append(trace, Answer(r.ok, r.v, 0))
            /\ fitted' = IF r.fit THEN fitted \cup {i} ELSE fitted
            /\ best_score' = IF wins THEN score ELSE best_score
            /\ best_num_components' = IF wins THEN i ELSE best_num_components
    /\ i' = i + 1
    /\ UNCHANGED <<context, pc, model, error, seeded, call, first_best>>

\* -------------------------------------------------------------- SelectorDIC
DICStart ==
    /\ pc = "select"
    /\ strategy = "SelectorDIC"
    /\ best_score' = NegInf
    /\ best_num_components' = 0
    /\ i' = min_n_components
    /\ pc' = "sweep"
    /\ UNCHANGED <<context, model, error, fit_log, trace, fitted, seeded, call,
                   first_best>>

OtherWords == {w \in 1..hwords : w # this_word}

\* if score > best_score or best_score == 0
MaxBetter(score, best) == score > best \/ best = 0

\* Recorded in trace for the properties, not computed by select(): the
\* criterion of the class docstring for one candidate, from the trainer's
\* answers sc (the model's score of every word's X, lengths): the own score
\* less the mean over the other words scored successfully.
PolicyDIC(sc) ==
    LET scored == {w \in OtherWords : sc[w].ok}
        cnt == Cardinality(scored)
    IN sc[this_word].v * Unit
         - (IF cnt = 0 THEN 0 ELSE (SumOver(scored, sc) * Unit) \div cnt)

DICCandidate ==
    /\ pc = "sweep"
    /\ strategy = "SelectorDIC"
    /\ i < max_n_components
    /\ fit_log' = Append(fit_log, FitRecord(i, "X", 0, TRUE, NoSeed))
    /\ \/ \* model.fit(self.X, self.lengths) raises ValueError
          /\ trace' = Append(trace, Answer(FALSE, 0, 0))
          /\ i' = i + 1
          /\ UNCHANGED <<pc, error, fitted, best_score, best_num_components>>
       \/ \* the fit succeeds; sc[w] is model.score(X_w, lengths_w), scX is
          \* model.score(X) for the X left over from the loop (no lengths)
          /\ CanFit(i)
          /\ \E sc \in [1..hwords -> ScoreRes], scX \in ScoreRes :
               LET antiLogL == SumOver(OtherWords, sc)
                   word_count == Cardinality(OtherWords)
                   raisedInLoop == \E w \in OtherWords : ~sc[w].ok
                   unbound == ~raisedInLoop /\ OtherWords = {}
                   computed == ~raisedInLoop /\ ~unbound /\ scX.ok
                   score == scX.v * Unit - (antiLogL * Unit) \div word_count
                   wins == computed /\ MaxBetter(score, best_score)
               IN /\ trace' = Append(trace,
                         IF sc[this_word].ok
                         THEN Answer(TRUE, PolicyDIC(sc),
                                     Cardinality({w \in OtherWords : ~sc[w].ok}))
                         ELSE Answer(FALSE, 0, 0))
                  /\ fitted' = fitted \cup {i}
                  /\ best_score' = IF wins THEN score ELSE best_score
                  /\ best_num_components' = IF wins THEN i ELSE best_num_components
                  /\ IF unbound
                     THEN /\ pc' = "error"
                          /\ error' = "UnboundLocalError"
                          /\ i' = i
                     ELSE /\ i' = i + 1
                          /\ UNCHANGED <<pc, error>>
    /\ UNCHANGED <<context, model, seeded, call, first_best>>

\* --------------------------------------------------------------- SelectorCV
CVStart ==
    /\ pc = "select"
    /\ strategy = "SelectorCV"
    /\ best_score' = 0
    /\ best_num_components' = 0
    /\ i' = min_n_components
    /\ pc' = "sweep"
    /\ UNCHANGED <<context, model, error, fit_log, trace, fitted, seeded, call,
                   first_best>>

\* Recorded in trace for the properties: the average log-likelihood of the
\* class docstring for one candidate, from the trainer's answers for the folds: the mean of the folds that fitted and scored, 0 when none.
PolicyMean(folds) ==
    LET good == {j \in DOMAIN folds : folds[j].ok}
    IN IF good = {} THEN 0 ELSE (SumOver(good, folds) * Unit) \div Cardinality(good)

FoldFits(n, k) ==
    IF k = 0 THEN <<>>
    ELSE [j \in 1..k |-> FitRecord(n, "X_train", j, FALSE, NoSeed)]

CVCandidate ==
    /\ pc = "sweep"
    /\ strategy = "SelectorCV"
    /\ i < max_n_components
    /\ \/ \* kf.split(self.X) raises ValueError: more splits than samples
          /\ lenX < n_splits
          /\ pc' = "error"
          /\ error' = "ValueError"
          /\ UNCHANGED <<i, best_score, best_num_components, fit_log, trace, fitted>>
       \/ /\ lenX >= n_splits
          /\ \E folds \in [1..n_splits -> Outcomes(i)] :
               LET okFolds == SelectSeq(folds, LAMBDA r : r.ok)
                   score == [j \in 1..Len(okFolds) |-> okFolds[j].v]
                   avg_score == IF Len(score) = 0 THEN 0
                                ELSE (SumSeq(score) * Unit) \div Len(score)
                   wins == MaxBetter(avg_score, best_score)
               IN /\ fit_log' = fit_log \o FoldFits(i, n_splits)
                  /\ trace' = Append(trace, Answer(Len(score) > 0, PolicyMean(folds), 0))
                  /\ fitted' = IF \E j \in 1..n_splits : folds[j].fit
                               THEN fitted \cup {i} ELSE fitted
                  /\ best_score' = IF wins THEN avg_score ELSE best_score
                  /\ best_num_components' = IF wins THEN i ELSE best_num_components
          /\ i' = i + 1
          /\ UNCHANGED <<pc, error>>
    /\ UNCHANGED <<context, model, seeded, call, first_best>>

\* ------------------------------------------------------- end of every sweep
SweepEnd ==
    /\ pc = "sweep"
    /\ i >= max_n_components
    /\ pc' = "return"
    /\ UNCHANGED <<context, i, best_score, best_num_components, model, error,
                   fit_log, trace, fitted, seeded, call, first_best>>

\* ----------------------------------------------------- ModelSelector.base_model
\* The answers the trainer can give to fit(self.X, self.lengths) with
\* random_state: the remembered one when this n was fitted before.
SeededAnswers(n) ==
    IF ~CanFit(n) THEN {FALSE}
    ELSE IF \E b \in BOOLEAN : <<n, b>> \in seeded
         THEN {b \in BOOLEAN : <<n, b>> \in seeded}
         ELSE BOOLEAN

BaseModel_nolengths ==
    /\ pc = "return"
    /\ \E ok \in SeededAnswers(best_num_components) :
         /\ fit_log' = Append(fit_log,
                FitRecord(best_num_components, "X", 0, FALSE, random_state))
         /\ model' = IF ok THEN Len(fit_log') ELSE None
         /\ seeded' = seeded \cup {<<best_num_components, ok>>}
         /\ fitted' = IF ok THEN fitted \cup {best_num_components} ELSE fitted
    /\ pc' = "done"
    /\ UNCHANGED <<context, i, best_score, best_num_components, error, trace,
                   call, first_best>>

BaseModel ==
    /\ pc = "return"
    /\ \E ok \in SeededAnswers(best_num_components) :
         /\ fit_log' = Append(fit_log,
                FitRecord(best_num_components, "X", 0, TRUE, random_state))
         /\ model' = IF ok THEN Len(fit_log') ELSE None
         /\ seeded' = seeded \cup {<<best_num_components, ok>>}
         /\ fitted' = IF ok THEN fitted \cup {best_num_components} ELSE fitted
    /\ pc' = "done"
    /\ UNCHANGED <<context, i, best_score, best_num_components, error, trace,
                   call, first_best>>

Next ==
    \/ ConstantSelect
    \/ BICStart
    \/ BICCandidate
    \/ DICStart
    \/ DICCandidate
    \/ CVStart
    \/ CVCandidate
    \/ SweepEnd
    \/ BaseModel

Spec == Init /\ [][Next]_vars

\* ------------------------------------------------- a second select() call
\* The caller calls select() again on the same selector object.
Reselect ==
    /\ pc = "done"
    /\ call = 1
    /\ call' = 2
    /\ first_best' = best_num_components
    /\ pc' = "select"
    /\ i' = 0
    /\ best_score' = 0
    /\ best_num_components' = 0
    /\ model' = None
    /\ error' = ""
    /\ fit_log' = <<>>
    /\ trace' = <<>>
    /\ fitted' = {}
    /\ UNCHANGED <<context, seeded>>

NextTwice == Next \/ Reselect

SpecTwice == Init /\ [][NextTwice]_vars

\* ---------------------------------------------------------------- properties
ValidContext == lenX >= 1 /\ min_n_components < max_n_components
Range == min_n_components..(max_n_components - 1)
Tried == {n \in Range : n - min_n_components + 1 <= Len(trace)}
Cand(n) == trace[n - min_n_components + 1]
SweepOver == pc \in {"return", "done"}

\* the first (lowest) n of C whose value is extreme under the order Le
FirstBest(C, val(_), Le(_, _)) ==
    IF C = {} THEN 0
    ELSE CHOOSE n \in C : /\ \A m \in C : Le(val(n), val(m))
                          /\ \A m \in C : m < n => ~Le(val(m), val(n))

\* C1: with a non-empty label and min_n_components < max_n_components,
\* select() of no strategy ends in an error.
C1_NeverRaises == ValidContext => pc # "error"

ClaimP(n) == n ^ 2 + 2 * n_features * n - 1
ClaimBIC(n) == ClaimP(n) * LnMilli[lenX] - 2000 * Cand(n).v
Scoring == {n \in Tried : Cand(n).ok}
C3_BICSmallestMinimizer ==
    (strategy = "SelectorBIC" /\ pc \in {"sweep", "return", "done"}) =>
        /\ best_num_components = FirstBest(Scoring, ClaimBIC, LAMBDA a, b : a <= b)
        /\ best_num_components # 0 => Cand(best_num_components).ok
        /\ \A n1, n2 \in Scoring :
               (n1 < n2 /\ Cand(n1).v = Cand(n2).v) => best_num_components # n2

C3_Witness ==
    /\ strategy = "SelectorBIC"
    /\ pc = "done"
    /\ Len(trace) = 2
    /\ trace[1].ok /\ trace[2].ok
    /\ trace[1].v = trace[2].v
    /\ lenX = 1
    /\ best_num_components = min_n_components

\* C4: SelectorCV picks the first candidate whose average (the mean of its
\* successful folds, 0 when every fold failed) is the maximum over all
\* candidates of the range.
C4_CVFirstMaximum ==
    (strategy = "SelectorCV" /\ SweepOver /\ ValidContext) =>
        best_num_components =
            FirstBest(Range, LAMBDA n : Cand(n).v, LAMBDA a, b : a >= b)

\* C5: SelectorDIC picks the first candidate that maximizes
\* DIC(n) = logL_self(n) - mean(logL_other(n)) over the fitted candidates,
\* logL_self being the score against this word's own sequences.  Stated for
\* the sweeps in which no scoring of another word raised, where the mean is
\* over every other word.
C5_DICFirstMaximum ==
    (strategy = "SelectorDIC" /\ SweepOver /\ \A n \in Scoring : Cand(n).excl = 0) =>
        best_num_components =
            FirstBest(Scoring, LAMBDA n : Cand(n).v, LAMBDA a, b : a >= b)

\* C6: two calls of select() on the same context with the same seed return
\* the same bestComponents.
C6_SameBestComponents ==
    (call = 2 /\ pc = "done") => best_num_components = first_best

\* C7: a context that violates its invariants (no rows for the label, or
\* min_n_components >= max_n_components) never reaches a trainer fit and
\* never yields a normal outcome.
C7_InvalidContextFails ==
    ~ValidContext => (fit_log = <<>> /\ pc # "done")

\* C8: SelectorConstant sweeps nothing and makes one fit, on the full data
\* (X with lengths) at n_constant; bestComponents is n_constant whatever the
\* fit answers, also when the returned model is None.
C8_ConstantOneFit ==
    strategy = "SelectorConstant" =>
        /\ trace = <<>>
        /\ SweepOver => best_num_components = n_constant
        /\ pc # "done" => fit_log = <<>>
        /\ pc = "done" =>
              fit_log = <<FitRecord(n_constant, "X", 0, TRUE, random_state)>>

C8_Witness ==
    /\ strategy = "SelectorConstant"
    /\ pc = "done"
    /\ lenX >= 1
    /\ model = None
    /\ n_constant # default_n_constant
    /\ best_num_components = n_constant

\* C9: in SelectorDIC a candidate for which the scoring of some other word
\* raised still competes with its DIC over the remaining words, and a word
\* with no other word to score against gets DIC(n) = logL_self(n) instead of
\* an error.
C9_DICExcludesFailedWords ==
    strategy = "SelectorDIC" =>
        /\ pc # "error"
        /\ SweepOver =>
              \A n \in Scoring :
                  Cand(n).excl > 0 =>
                      /\ best_num_components \in Scoring
                      /\ Cand(best_num_components).v >= Cand(n).v

\* C10: the model select() returns is None or the model of the one fit made
\* after the sweep has ended, on X with lengths at best_num_components; no
\* model exists as a result before that fit, and a failed final fit leaves
\* best_num_components at the value it was fitted for.
SweepFits ==
    IF strategy = "SelectorConstant" THEN 0
    ELSE IF strategy = "SelectorCV" THEN n_splits * Cardinality(Range)
    ELSE Cardinality(Range)
C10_FinalRefit ==
    /\ pc # "done" => model = None
    /\ pc = "done" =>
          /\ strategy # "SelectorConstant" => (i >= max_n_components /\ Tried = Range)
          /\ Len(fit_log) = SweepFits + 1
          /\ fit_log[Len(fit_log)] =
                 FitRecord(best_num_components, "X", 0, TRUE, random_state)
          /\ \A k \in 1..(Len(fit_log) - 1) : fit_log[k].seed = NoSeed
          /\ model \in {None, Len(fit_log)}

C10_Witness ==
    /\ strategy = "SelectorCV"
    /\ pc = "done"
    /\ Len(fit_log) = 2 * n_splits + 1
    /\ model = Len(fit_log)
    /\ best_num_components = max_n_components - 1

====
